---- MODULE Spec2Model ----
(***************************************************************************)
(* A model of the kv crate (src/src/lib.rs): the pattern compiler          *)
(* Pattern::compile with handle_escapes, the splitting primitive           *)
(* multi_split and Pattern::run.                                           *)
(*                                                                         *)
(* A Rust string is a sequence of one-character strings; all characters of *)
(* the model are ASCII, so a byte offset is a 0-based index into the       *)
(* sequence.  Byte gives the byte value that orders strings in sort().     *)
(***************************************************************************)
EXTENDS Integers, Sequences, FiniteSets, TLC

VARIABLES pc, template, compiled, input, seperators, tokens, reject, result

vars == <<pc, template, compiled, input, seperators, tokens, reject, result>>

----------------------------------------------------------------------------
(* Strings *)

LF == "\n"
TAB == "\t"
CR == "\r"
BSL == "\\"

\* The byte of a character (UTF-8 of an ASCII character), the order of String::cmp.
Byte(c) ==
    CASE c = TAB -> 9
      [] c = LF -> 10
      [] c = CR -> 13
      [] c = " " -> 32
      [] c = "%" -> 37
      [] c = "8" -> 56
      [] c = ":" -> 58
      [] c = ";" -> 59
      [] c = "=" -> 61
      [] c = BSL -> 92
      [] c = "a" -> 97
      [] c = "b" -> 98
      [] c = "e" -> 101
      [] c = "k" -> 107
      [] c = "l" -> 108
      [] c = "n" -> 110
      [] c = "r" -> 114
      [] c = "t" -> 116
      [] c = "v" -> 118
      [] c = "y" -> 121
      [] c = "{" -> 123
      [] c = "}" -> 125

\* s[from..] with a 0-based byte offset.
Tail0(s, from) == SubSeq(s, from + 1, Len(s))

\* s[from..to] with 0-based byte offsets, to exclusive.
Slice0(s, from, to) == SubSeq(s, from + 1, to)

\* str::starts_with
StartsWith(s, p) == Len(p) <= Len(s) /\ SubSeq(s, 1, Len(p)) = p

\* The 0-based offsets at which p occurs in s.
Occurrences(s, p) == {i \in 0..(Len(s) - Len(p)) : SubSeq(s, i + 1, i + Len(p)) = p}

\* str::contains
Contains(s, p) == Occurrences(s, p) # {}

\* str::find: the offset of the first occurrence, -1 for None.
Find(s, p) ==
    LET occ == Occurrences(s, p)
    IN IF occ = {} THEN -1 ELSE CHOOSE i \in occ : \A j \in occ : i <= j

\* String::cmp, strictly less: lexicographic by bytes, a proper prefix first.
RECURSIVE StrLess(_, _)
StrLess(s, t) ==
    IF t = <<>> THEN FALSE
    ELSE IF s = <<>> THEN TRUE
    ELSE IF Byte(Head(s)) # Byte(Head(t)) THEN Byte(Head(s)) < Byte(Head(t))
    ELSE StrLess(Tail(s), Tail(t))

\* Vec<String>::sort
Sort(v) == SortSeq(v, StrLess)

\* Vec::dedup: drops every element equal to the one before it.
RECURSIVE Dedup(_)
Dedup(v) ==
    IF Len(v) <= 1 THEN v
    ELSE IF v[1] = v[2] THEN Dedup(Tail(v))
    ELSE <<v[1]>> \o Dedup(Tail(v))

Range(v) == {v[i] : i \in DOMAIN v}

----------------------------------------------------------------------------
(* Pattern and Error values *)

KeyMarker == <<"%", "{", "k", "e", "y", "}">>
ValMarker == <<"%", "{", "v", "a", "l", "}">>

Ok(fs, ks) == [tag |-> "Ok", field_seperators |-> fs, key_seperators |-> ks]
\* A faulty InvalidPattern: the offset of the %{key} marker, not of the search.
InvalidPattern_at_marker(p) == [tag |-> "InvalidPattern", pos |-> p - 6]

InvalidPattern(p) == [tag |-> "InvalidPattern", pos |-> p]
DoubleSeperator(s) == [tag |-> "DoubleSeperator", sep |-> s]
InvalidEscape(c) == [tag |-> "InvalidEscape", ch |-> c]
UnterminatedEscape == [tag |-> "UnterminatedEscape"]

\* Pattern::default()
DefaultPattern == Ok(<<<<" ">>>>, <<<<":">>>>)

----------------------------------------------------------------------------
(* handle_escapes *)

\* A faulty loop: a final backslash with nothing after it is copied.
RECURSIVE handle_escapes_loop_lenient(_, _)
handle_escapes_loop_lenient(s, res) ==
    IF s = <<>> THEN [tag |-> "Ok", str |-> res]
    ELSE IF Head(s) = BSL
         THEN IF Len(s) >= 2
              THEN LET c1 == s[2]
                       rest == Tail(Tail(s))
                   IN CASE c1 = BSL -> handle_escapes_loop_lenient(rest, Append(res, c1))
                        [] c1 = "n" -> handle_escapes_loop_lenient(rest, Append(res, LF))
                        [] c1 = "t" -> handle_escapes_loop_lenient(rest, Append(res, TAB))
                        [] c1 = "r" -> handle_escapes_loop_lenient(rest, Append(res, CR))
                        [] OTHER -> [tag |-> "InvalidEscape", ch |-> c1]
              ELSE [tag |-> "Ok", str |-> Append(res, BSL)]
    ELSE handle_escapes_loop_lenient(Tail(s), Append(res, Head(s)))

\* The loop of handle_escapes: s is what cs has left, res the string built so far.
RECURSIVE handle_escapes_loop(_, _)
handle_escapes_loop(s, res) ==
    IF s = <<>> THEN [tag |-> "Ok", str |-> res]
    ELSE IF Head(s) = BSL
         THEN IF Len(s) >= 2
              THEN LET c1 == s[2]
                       rest == Tail(Tail(s))
                   IN CASE c1 = BSL -> handle_escapes_loop(rest, Append(res, c1))
                        [] c1 = "n" -> handle_escapes_loop(rest, Append(res, LF))
                        [] c1 = "t" -> handle_escapes_loop(rest, Append(res, TAB))
                        [] c1 = "r" -> handle_escapes_loop(rest, Append(res, CR))
                        [] OTHER -> InvalidEscape(c1)
              ELSE UnterminatedEscape
    ELSE handle_escapes_loop(Tail(s), Append(res, Head(s)))

handle_escapes(s) == handle_escapes_loop(s, <<>>)

----------------------------------------------------------------------------
(* Pattern::compile *)

\* The scanning loop of compile: i is the cursor, fs and ks the separators
\* pushed so far.  The value is an Error, or the two lists as the loop leaves
\* them (tag "Scanned").
RECURSIVE scan_loop(_, _, _, _)
scan_loop(pattern, i, fs, ks) ==
    LET rest == Tail0(pattern, i)
    IN IF StartsWith(rest, KeyMarker)
       THEN LET j == i + 6
                i1 == Find(Tail0(pattern, j), ValMarker)
            IN IF i1 # -1
               THEN IF i1 # 0
                    THEN LET e == handle_escapes(Slice0(pattern, j, j + i1))
                         IN IF e.tag # "Ok" THEN e
                            ELSE scan_loop(pattern, j + i1 + 6, fs, Append(ks, e.str))
                    ELSE scan_loop(pattern, j + i1 + 6, fs, ks)
               ELSE InvalidPattern(j)
       ELSE LET i1 == Find(rest, KeyMarker)
            IN IF i1 # -1
               THEN IF i1 # 0
                    THEN LET e == handle_escapes(Slice0(pattern, i, i + i1))
                         IN IF e.tag # "Ok" THEN e
                            ELSE scan_loop(pattern, i + i1, Append(fs, e.str), ks)
                    ELSE scan_loop(pattern, i + i1, fs, ks)
               ELSE IF rest = <<>>
                    THEN [tag |-> "Scanned", fs |-> fs, ks |-> ks]
                    ELSE LET e == handle_escapes(rest)
                         IN IF e.tag # "Ok" THEN e
                            ELSE [tag |-> "Scanned", fs |-> Append(fs, e.str), ks |-> ks]

\* A faulty default: ";" for the field separators.
field_default_semicolon(fs) == IF fs = <<>> THEN <<<<";">>>> ELSE fs

\* The default of an empty field separator list.
field_default(fs) == IF fs = <<>> THEN <<<<" ">>>> ELSE fs

\* The default of an empty key separator list.
key_default(ks) == IF ks = <<>> THEN <<<<":">>>> ELSE ks

\* The scan and the defaults: the separators compile has collected when it
\* starts to sort them, or the Error of the scan.
collect(pattern) ==
    LET s == scan_loop(pattern, 0, <<>>, <<>>)
    IN IF s.tag # "Scanned" THEN s
       ELSE [tag |-> "Scanned", fs |-> field_default(s.fs), ks |-> key_default(s.ks)]

\* A faulty body: the test against the other field separators is left out.
field_check_cross_only(fs, F, K) ==
    IF \E k \in DOMAIN K : Contains(K[k], fs) THEN {[tag |-> "DoubleSeperator", sep |-> fs]}
    ELSE {}

\* The body of the loop over the field separators: what it returns for fs.
field_check(fs, F, K) ==
    IF \E k \in DOMAIN K : Contains(K[k], fs) THEN {DoubleSeperator(fs)}
    ELSE IF \E k \in DOMAIN F : F[k] # fs /\ Contains(F[k], fs) THEN {DoubleSeperator(fs)}
    ELSE {}

\* A faulty body: the test against the field separators is left out.
key_check_same_role_only(ks, F, K) ==
    IF \E k \in DOMAIN K : K[k] # ks /\ Contains(K[k], ks)
    THEN {[tag |-> "DoubleSeperator", sep |-> ks]}
    ELSE {}

\* The body of the loop over the key separators: what it returns for ks.
key_check(ks, F, K) ==
    IF \E k \in DOMAIN F : Contains(F[k], ks) THEN {DoubleSeperator(ks)}
    ELSE IF \E k \in DOMAIN K : K[k] # ks /\ Contains(K[k], ks) THEN {DoubleSeperator(ks)}
    ELSE {}

\* The two validation loops over the sorted lists: the first Error returned,
\* or the Pattern.
validate(F, K) ==
    LET fbad == {k \in DOMAIN F : field_check(F[k], F, K) # {}}
        kbad == {k \in DOMAIN K : key_check(K[k], F, K) # {}}
        first(S) == CHOOSE k \in S : \A j \in S : k <= j
    IN IF fbad # {} THEN CHOOSE e \in field_check(F[first(fbad)], F, K) : TRUE
       ELSE IF kbad # {} THEN CHOOSE e \in key_check(K[first(kbad)], F, K) : TRUE
       ELSE Ok(F, K)

compile(pattern) ==
    LET c == collect(pattern)
    IN IF c.tag # "Scanned" THEN c
       ELSE validate(Dedup(Sort(c.fs)), Dedup(Sort(c.ks)))

----------------------------------------------------------------------------
(* multi_split *)

\* A &str borrowed from the input: the offset it starts at and its text.
Str(start, text) == [start |-> start, text |-> text]

\* A faulty split: only the first match of s splits e.
split_once(e, s) ==
    LET i == Find(e.text, s)
    IN IF i = -1 THEN <<e>>
       ELSE <<Str(e.start, Slice0(e.text, 0, i)),
              Str(e.start + i + Len(s), Tail0(e.text, i + Len(s)))>>

\* str::split with a non-empty pattern s, on the slice e: the pieces between
\* the matches of s, found left to right, each search starting where the
\* last match ended.
RECURSIVE split(_, _)
split(e, s) ==
    LET i == Find(e.text, s)
    IN IF i = -1 THEN <<e>>
       ELSE <<Str(e.start, Slice0(e.text, 0, i))>>
            \o split(Str(e.start + i + Len(s), Tail0(e.text, i + Len(s))), s)

\* The inner loop of multi_split: every element of i split by s, appended
\* in order.
RECURSIVE split_each(_, _)
split_each(i, s) ==
    IF i = <<>> THEN <<>> ELSE split(Head(i), s) \o split_each(Tail(i), s)

\* A faulty outer loop: it stops after the first separator of the list.
split_passes_first_only(i, seps) ==
    IF seps = <<>> THEN i ELSE split_each(i, Head(seps))

\* The outer loop of multi_split: one pass per separator, in list order.
RECURSIVE split_passes(_, _)
split_passes(i, seps) ==
    IF seps = <<>> THEN i ELSE split_passes(split_each(i, Head(seps)), Tail(seps))

multi_split(inp, seps) == split_passes(<<Str(0, inp)>>, seps)

\* The texts of a Vec<&str>.
Texts(v) == [k \in DOMAIN v |-> v[k].text]

----------------------------------------------------------------------------
(* Pattern::run *)

None == [tag |-> "None"]
Some(r) == [tag |-> "Some", map |-> r]

\* V::object(): the empty mapping.
Object == [k \in {} |-> <<>>]

\* A faulty insert: a key already stored keeps its value.
insert_keep(r, key, val) ==
    [k \in DOMAIN r \cup {key} |-> IF k \in DOMAIN r THEN r[k] ELSE val]

\* The insert of a mapping that accepts it: the value stored under key is
\* replaced.
insert(r, key, val) == [k \in DOMAIN r \cup {key} |-> IF k = key THEN val ELSE r[k]]

\* A faulty test: 2 or more sub-tokens.
is_pair_at_least(kv) == Len(kv) >= 2

\* Whether a field token is retained.
is_pair(kv) == Len(kv) = 2

\* A faulty return: the mapping, whether or not a pair was inserted.
finish_always_some(r, empty) == [tag |-> "Some", map |-> r]

\* The value run returns after its loop.
finish(r, empty) == IF empty THEN None ELSE Some(r)

\* The loop of run over the field tokens from the k-th on: r is the mapping,
\* n the inserts made so far.  The mapping V refuses its rej-th insert
\* (rej = 0: it accepts every insert), and run then returns None.
RECURSIVE run_loop(_, _, _, _, _, _, _)
run_loop(fields, k, K, r, empty, n, rej) ==
    IF k > Len(fields) THEN finish(r, empty)
    ELSE LET kv == multi_split(fields[k].text, K)
         IN IF is_pair(kv)
            THEN IF n + 1 = rej THEN None
                 ELSE run_loop(fields, k + 1, K, insert(r, kv[1].text, kv[2].text),
                               FALSE, n + 1, rej)
            ELSE run_loop(fields, k + 1, K, r, empty, n, rej)

run(p, inp, rej) ==
    run_loop(multi_split(inp, p.field_seperators), 1, p.key_seperators,
             Object, TRUE, 0, rej)

----------------------------------------------------------------------------
(* The inputs of the model *)

\* The longest template of the separator family, in tokens.
MaxTokens == 7
\* The longest template of the escape family, in tokens.
MaxEscTokens == 5
\* The longest input of a direct multi_split call, and its separators.
MaxSplitLen == 5
MaxSepLen == 2
MaxSeps == 2
\* The longest input of run.
MaxRunLen == 5
\* The mapping refuses its reject-th insert, reject in 0..MaxReject.
MaxReject == 2

\* The strings over the alphabet A of length at most n.
Strings(A, n) == UNION {[1..m -> A] : m \in 0..n}

RECURSIVE Flatten(_)
Flatten(ts) == IF ts = <<>> THEN <<>> ELSE Head(ts) \o Flatten(Tail(ts))

\* A template is given as a sequence of tokens, each a marker or one
\* character: the template is the concatenation of its tokens.  The
\* separator family has the characters of the default separators and ";", the
\* escape family the backslash and the characters it escapes.
SepTokens == {KeyMarker, ValMarker, <<" ">>, <<":">>, <<";">>}
EscTokens == {KeyMarker, ValMarker, <<BSL>>, <<"n">>, <<"t">>, <<"r">>, <<" ">>}
SepTemplates == Strings(SepTokens, MaxTokens)
EscTemplates == Strings(EscTokens, MaxEscTokens)

SplitChars == {"a", "b"}
SplitInputs == Strings(SplitChars, MaxSplitLen)
Seperators == Strings(SplitChars, MaxSepLen) \ {<<>>}
SepLists == {l \in Strings(Seperators, MaxSeps) : \A i, j \in DOMAIN l : i # j => l[i] # l[j]}

\* The templates run is checked with: those of the tests simple_split and
\* different_seperators and one with separators of two characters;
\* Pattern::default() is the fourth pattern.
RunTemplates ==
    { <<KeyMarker, <<"=">>, ValMarker>>,
      <<KeyMarker, <<":", "=">>, ValMarker, <<";", " ">>>>,
      <<KeyMarker, <<"=">>, ValMarker, <<";">>, KeyMarker, <<":">>, ValMarker,
        <<" ">>, KeyMarker, <<":">>, ValMarker>> }
RunChars == {"a", "=", ":", ";", " "}
RunInputs == Strings(RunChars, MaxRunLen)

----------------------------------------------------------------------------
(* The state machine: one action per operation of the crate *)

Init ==
    /\ pc = "start"
    /\ template = <<>>
    /\ compiled = [tag |-> "NotCompiled"]
    /\ input = <<>>
    /\ seperators = <<>>
    /\ tokens = <<>>
    /\ reject = 0
    /\ result = [tag |-> "NotRun"]

\* Pattern::compile(t), for a template t given by a token sequence of T.
Compile(T) ==
    /\ pc = "start"
    /\ \E ts \in T :
        /\ template' = Flatten(ts)
        /\ compiled' = compile(Flatten(ts))
    /\ pc' = "compiled"
    /\ UNCHANGED <<input, seperators, tokens, reject, result>>

\* Pattern::default()
Default ==
    /\ pc = "start"
    /\ compiled' = DefaultPattern
    /\ pc' = "default"
    /\ UNCHANGED <<template, input, seperators, tokens, reject, result>>

\* p.run(inp) on the compiled pattern, for an input inp of I, into a mapping
\* that refuses its rej-th insert.
Run(I) ==
    /\ pc \in {"compiled", "default"}
    /\ compiled.tag = "Ok"
    /\ \E inp \in I, rej \in 0..MaxReject :
        /\ input' = inp
        /\ reject' = rej
        /\ result' = run(compiled, inp, rej)
    /\ pc' = "ran"
    /\ UNCHANGED <<template, compiled, seperators, tokens>>

\* multi_split(inp, seps), for an input inp of I and a separator list seps of L.
MultiSplit(I, L) ==
    /\ pc = "start"
    /\ \E inp \in I, seps \in L :
        /\ input' = inp
        /\ seperators' = seps
        /\ tokens' = multi_split(inp, seps)
    /\ pc' = "split"
    /\ UNCHANGED <<template, compiled, reject, result>>

\* The compiler over the template families.
NextCompile == Compile(SepTemplates) \/ Compile(EscTemplates) \/ Default
SpecCompile == Init /\ [][NextCompile]_vars

\* The splitting engine: multi_split alone, and run on compiled patterns.
Next ==
    \/ MultiSplit(SplitInputs, SepLists)
    \/ Compile(RunTemplates)
    \/ Default
    \/ Run(RunInputs)
Spec == Init /\ [][Next]_vars

----------------------------------------------------------------------------
(* Vocabulary of the properties *)

\* x is a substring of y or y of x.
Ambiguous(x, y) == Contains(y, x) \/ Contains(x, y)

\* The separators of the list L that are substrings of a different separator of L.
ContainedIn(L) == {x \in Range(L) : \E y \in Range(L) : y # x /\ Contains(y, x)}

\* The separators of either list that are substrings of a separator of the other.
CrossContained(F, K) ==
    {x \in Range(F) : \E y \in Range(K) : Contains(y, x)}
        \cup {y \in Range(K) : \E x \in Range(F) : Contains(x, y)}

\* Invariant I2 of two separator lists.
I2(F, K) == \A x \in Range(F), y \in Range(K) : ~Ambiguous(x, y)

\* Invariant I3 of one separator list.
I3(L) == ContainedIn(L) = {}

\* The offsets of the %{key} occurrences with no %{val} occurrence after them.
Dangling(t) ==
    {q \in Occurrences(t, KeyMarker) : \A v \in Occurrences(t, ValMarker) : v < q}

FirstDangling(t) == CHOOSE q \in Dangling(t) : \A r \in Dangling(t) : q <= r

\* A backslash followed by a character that is no escape.
BadEscapePair(t) ==
    \E i \in 1..(Len(t) - 1) : t[i] = BSL /\ t[i + 1] \notin {BSL, "n", "t", "r"}

\* The number of backslashes t ends in.
RECURSIVE TrailingBackslashes(_)
TrailingBackslashes(t) ==
    IF t = <<>> \/ t[Len(t)] # BSL THEN 0
    ELSE 1 + TrailingBackslashes(SubSeq(t, 1, Len(t) - 1))

\* t ends in a backslash that is not the second character of an escape.
EndsInBareBackslash(t) == TrailingBackslashes(t) % 2 = 1

\* The compile under observation: compile(template) has returned.
Compiled == pc = "compiled"

----------------------------------------------------------------------------
(* Properties of Pattern::compile, checked under SpecCompile *)

\* C1: whenever compile has collected (escapes decoded, defaults inserted) a
\* field separator and a key separator one of which is a substring of the
\* other, it returns Err(DoubleSeperator(..)); and every Pattern returned as
\* Ok satisfies I2.
C1_AmbiguityDetection ==
    Compiled =>
        LET c == collect(template)
        IN /\ (c.tag = "Scanned" /\ ~I2(c.fs, c.ks)) => compiled.tag = "DoubleSeperator"
           /\ compiled.tag = "Ok" => I2(compiled.field_seperators, compiled.key_seperators)

\* A key separator strictly inside a field separator was collected and
\* compile returned DoubleSeperator of it.
C1_Witness ==
    /\ Compiled
    /\ compiled.tag = "DoubleSeperator"
    /\ LET c == collect(template)
       IN \E x \in Range(c.fs) : compiled.sep # x /\ Contains(x, compiled.sep)
             /\ compiled.sep \in Range(c.ks)

\* C6 (as amended): every Pattern returned as Ok satisfies I3 in both lists; a
\* template that yields a same-role pair, one containing the other, is
\* rejected with Err(DoubleSeperator(s)), where s is a collected separator
\* that is contained in another one: the contained separator of a same-role
\* pair, or a separator that is a substring of a separator of the other role.
C6_SameRoleRejected ==
    Compiled =>
        LET c == collect(template)
        IN /\ compiled.tag = "Ok" =>
                I3(compiled.field_seperators) /\ I3(compiled.key_seperators)
           /\ (c.tag = "Scanned" /\ ~(I3(c.fs) /\ I3(c.ks))) =>
                /\ compiled.tag = "DoubleSeperator"
                /\ compiled.sep \in
                     ContainedIn(c.fs) \cup ContainedIn(c.ks) \cup CrossContained(c.fs, c.ks)
                /\ CrossContained(c.fs, c.ks) = {} =>
                     compiled.sep \in ContainedIn(c.fs) \cup ContainedIn(c.ks)

\* C6 as claimed: the separator reported is the contained one of a same-role pair.
C6_Original ==
    Compiled =>
        LET c == collect(template)
        IN /\ compiled.tag = "Ok" =>
                I3(compiled.field_seperators) /\ I3(compiled.key_seperators)
           /\ (c.tag = "Scanned" /\ ~(I3(c.fs) /\ I3(c.ks))) =>
                /\ compiled.tag = "DoubleSeperator"
                /\ compiled.sep \in ContainedIn(c.fs) \cup ContainedIn(c.ks)

\* Two key separators, one inside the other, and no cross-role containment:
\* compile reported the contained key separator.
C6_Witness ==
    /\ Compiled
    /\ compiled.tag = "DoubleSeperator"
    /\ LET c == collect(template)
       IN /\ ~I3(c.ks)
          /\ CrossContained(c.fs, c.ks) = {}
          /\ compiled.sep \in ContainedIn(c.ks)

\* C7 (as amended): compile on a template ending in a bare backslash never
\* returns Ok; it returns Err(UnterminatedEscape) unless the scan fails
\* earlier, with InvalidPattern because a %{key} has no %{val} after it or
\* with InvalidEscape because a backslash is followed by a character other
\* than \, n, t, r.
C7_TrailingBackslash ==
    (Compiled /\ EndsInBareBackslash(template)) =>
        /\ compiled.tag \in {"UnterminatedEscape", "InvalidPattern", "InvalidEscape"}
        /\ compiled.tag = "InvalidPattern" => Dangling(template) # {}
        /\ compiled.tag = "InvalidEscape" => BadEscapePair(template)

\* C7 as claimed: every such template gives UnterminatedEscape.
C7_Original ==
    (Compiled /\ EndsInBareBackslash(template)) => compiled.tag = "UnterminatedEscape"

\* A template with a %{key}..%{val} pair, valid escapes and a final bare
\* backslash gave UnterminatedEscape.
C7_Witness ==
    /\ Compiled
    /\ EndsInBareBackslash(template)
    /\ Contains(template, ValMarker)
    /\ Contains(template, <<BSL, "n">>)
    /\ compiled.tag = "UnterminatedEscape"

\* C8 (as amended): when a %{key} marker has no %{val} after it, compile
\* returns Err(InvalidPattern(p)) with p the offset right after the first such
\* marker, unless a separator literal before that marker fails escape
\* decoding, and then it returns that InvalidEscape or UnterminatedEscape.
C8_InvalidPatternPosition ==
    (Compiled /\ Dangling(template) # {}) =>
        LET q == FirstDangling(template)
        IN \/ compiled.tag = "InvalidPattern" /\ compiled.pos = q + 6
           \/ /\ compiled.tag \in {"InvalidEscape", "UnterminatedEscape"}
              /\ Contains(Slice0(template, 0, q), <<BSL>>)

\* C8 as claimed: every such template gives InvalidPattern, at the offset
\* right after a %{key} marker with no %{val} after it.
C8_Original ==
    (Compiled /\ Dangling(template) # {}) =>
        /\ compiled.tag = "InvalidPattern"
        /\ compiled.pos \in {q + 6 : q \in Dangling(template)}

\* A %{key} after a complete pair has no %{val}: InvalidPattern right after it.
C8_Witness ==
    /\ Compiled
    /\ Dangling(template) # {}
    /\ FirstDangling(template) > 0
    /\ Contains(template, ValMarker)
    /\ compiled.tag = "InvalidPattern"
    /\ compiled.pos = FirstDangling(template) + 6

\* C9: every Pattern returned as Ok has two non-empty lists of non-empty
\* separators; a template whose scan pushes no field separator gives the
\* field list [" "], one whose scan pushes no key separator the key list
\* [":"]; compile("%{key}:%{val}") equals Pattern::default().
C9_DefaultsAndNonEmpty ==
    (Compiled /\ compiled.tag = "Ok") =>
        LET s == scan_loop(template, 0, <<>>, <<>>)
        IN /\ compiled.field_seperators # <<>>
           /\ compiled.key_seperators # <<>>
           /\ \A x \in Range(compiled.field_seperators) \cup Range(compiled.key_seperators) :
                x # <<>>
           /\ s.fs = <<>> => compiled.field_seperators = <<<<" ">>>>
           /\ s.ks = <<>> => compiled.key_seperators = <<<<":">>>>
           /\ template = KeyMarker \o <<":">> \o ValMarker => compiled = DefaultPattern

\* compile("%{key}:%{val}") returned the default pattern.
C9_Witness ==
    /\ Compiled
    /\ template = KeyMarker \o <<":">> \o ValMarker
    /\ compiled = DefaultPattern

----------------------------------------------------------------------------
(* Vocabulary of the properties of the splitting engine *)

\* The orders of the list L.
Orders(L) == {[i \in DOMAIN L |-> L[p[i]]] : p \in Permutations(DOMAIN L)}

\* An end of s is a start of t: an occurrence of s can overlap one of t.
Overlaps(s, t) ==
    \E n \in 1..Len(s) :
        n <= Len(t) /\ SubSeq(s, Len(s) - n + 1, Len(s)) = SubSeq(t, 1, n)

\* No occurrence of a separator of L can overlap or contain an occurrence of
\* a different one.
NonOverlapping(L) ==
    /\ I3(L)
    /\ \A i, j \in DOMAIN L : i # j => ~Overlaps(L[i], L[j])

\* The field tokens of the run under observation, and the sub-tokens of each.
FieldTokens == multi_split(input, compiled.field_seperators)
SubTokens(f) == multi_split(f.text, compiled.key_seperators)

\* The field tokens that split into exactly 2 sub-tokens.
PairTokens == {k \in DOMAIN FieldTokens : Len(SubTokens(FieldTokens[k])) = 2}
KeyOf(k) == SubTokens(FieldTokens[k])[1].text
ValOf(k) == SubTokens(FieldTokens[k])[2].text

\* The keys of what run returned.
Keys == IF result.tag = "Some" THEN DOMAIN result.map ELSE {}

Ran == pc = "ran"
Split == pc = "split"

----------------------------------------------------------------------------
(* Properties of multi_split and Pattern::run, checked under Spec *)

\* C2 (as amended): for every input and every separator list in which no
\* separator is a substring of a different one and no end of a separator is
\* a start of a different one, multi_split yields the same set of tokens
\* for every order of the list; run on a pattern with such lists returns
\* the same for every order of its lists.
C2_OrderIndependence ==
    /\ (Split /\ NonOverlapping(seperators)) =>
          \A L \in Orders(seperators) :
              Range(Texts(multi_split(input, L))) = Range(Texts(tokens))
    /\ (Ran /\ NonOverlapping(compiled.field_seperators)
            /\ NonOverlapping(compiled.key_seperators)) =>
          \A F \in Orders(compiled.field_seperators), K \in Orders(compiled.key_seperators) :
              run(Ok(F, K), input, reject) = result

\* C2 as claimed: I3 alone makes the set of tokens independent of the order.
C2_Original ==
    (Split /\ I3(seperators)) =>
        \A L \in Orders(seperators) :
            Range(Texts(multi_split(input, L))) = Range(Texts(tokens))

\* Two non-overlapping separators, one of them longer than a character, both
\* matched in the input.
C2_Witness ==
    /\ Split
    /\ Len(seperators) = 2
    /\ NonOverlapping(seperators)
    /\ \E i \in DOMAIN seperators : Len(seperators[i]) > 1
    /\ \A i \in DOMAIN seperators : Contains(input, seperators[i])
    /\ Len(tokens) >= 3

\* C3: into a mapping that accepts every insert, the keys of the result are
\* the keys of the field tokens that split into exactly 2 sub-tokens, each
\* stored with the value of such a token; a field token that splits into 1
\* or into 3 or more adds nothing.
C3_ExactlyTwo ==
    (Ran /\ reject = 0) =>
        /\ Keys = {KeyOf(k) : k \in PairTokens}
        /\ \A key \in Keys : \E k \in PairTokens : KeyOf(k) = key /\ ValOf(k) = result.map[key]

\* run kept a pair and dropped a field token of 3 or more sub-tokens.
C3_Witness ==
    /\ Ran
    /\ reject = 0
    /\ result.tag = "Some"
    /\ \E k \in DOMAIN FieldTokens : Len(SubTokens(FieldTokens[k])) >= 3

\* C4: into a mapping that accepts every insert, run returns None exactly
\* when no field token splits into exactly 2 sub-tokens; an input with none
\* of the separators gives None; run never returns Some of an empty mapping.
C4_Absence ==
    Ran =>
        /\ reject = 0 => (result = None <=> PairTokens = {})
        /\ result.tag = "Some" => DOMAIN result.map # {}
        /\ (\A x \in Range(compiled.field_seperators) \cup Range(compiled.key_seperators) :
                ~Contains(input, x)) => result = None

\* None for an input that holds a field separator and a key separator.
C4_Witness ==
    /\ Ran
    /\ reject = 0
    /\ result = None
    /\ \E x \in Range(compiled.field_seperators) : Contains(input, x)
    /\ \E x \in Range(compiled.key_seperators) : Contains(input, x)

\* res, returned by run with the field separators in the order F, stores
\* under each key the value of the rightmost field token of the input that
\* splits into exactly 2 sub-tokens with that key.
LastWins(F, res) ==
    res.tag = "Some" =>
        LET fields == multi_split(input, F)
            pairs == {k \in DOMAIN fields : Len(SubTokens(fields[k])) = 2}
        IN \A key \in DOMAIN res.map :
               \E k \in pairs :
                   /\ SubTokens(fields[k])[1].text = key
                   /\ SubTokens(fields[k])[2].text = res.map[key]
                   /\ \A j \in pairs :
                        SubTokens(fields[j])[1].text = key => fields[j].start <= fields[k].start

\* C5: the value the returned mapping stores under a key is the value of the
\* rightmost field token of the input that splits into exactly 2 sub-tokens
\* with that key, for one and for several field separators in every order.
C5_LastWins ==
    Ran =>
        /\ LastWins(compiled.field_seperators, result)
        /\ \A F \in Orders(compiled.field_seperators) :
              LastWins(F, run(Ok(F, compiled.key_seperators), input, reject))

\* Two field tokens with one key and different values; two field separators
\* in the pattern.
C5_Witness ==
    /\ Ran
    /\ result.tag = "Some"
    /\ Len(compiled.field_seperators) = 2
    /\ \E j, k \in PairTokens : KeyOf(j) = KeyOf(k) /\ ValOf(j) # ValOf(k)

\* C10: multi_split returns at least one token; the tokens are substrings
\* of the input, disjoint and in left-to-right order; none contains a
\* separator of the list; no key and no value of a mapping returned by run
\* contains a field or key separator of the pattern.
C10_SeparatorFreeTokens ==
    /\ Split =>
          /\ Len(tokens) >= 1
          /\ \A k \in DOMAIN tokens :
                /\ tokens[k].text
                     = Slice0(input, tokens[k].start, tokens[k].start + Len(tokens[k].text))
                /\ tokens[k].start + Len(tokens[k].text) <= Len(input)
                /\ \A x \in Range(seperators) : ~Contains(tokens[k].text, x)
          /\ \A k \in 1..(Len(tokens) - 1) :
                tokens[k].start + Len(tokens[k].text) <= tokens[k + 1].start
    /\ (Ran /\ result.tag = "Some") =>
          \A key \in DOMAIN result.map :
              \A x \in Range(compiled.field_seperators) \cup Range(compiled.key_seperators) :
                  ~Contains(key, x) /\ ~Contains(result.map[key], x)

\* Two separators, the second in the list matched in the input, three or
\* more tokens.
C10_Witness ==
    /\ Split
    /\ Len(seperators) = 2
    /\ Contains(input, seperators[1])
    /\ \E k \in DOMAIN tokens : Contains(tokens[k].text, <<"a">>)
    /\ Len(tokens) >= 3

====
